---------------------------- MODULE Spec2Model ----------------------------
(***************************************************************************)
(* A model of the HW5800 decoder of src/src/hw5800.rs: the decimator       *)
(* (add_sample), the block detector, peak tracker and framer               *)
(* (averaged_sample), the bit decoder (transition), message_begin,         *)
(* message, crc and HW5800Status::new.                                     *)
(*                                                                         *)
(* Numbers.  The code computes in f32.  The model computes exactly, on     *)
(* integers: a power value p = (Sr/L)^2 + (Si/L)^2 is kept as the integer  *)
(* Sr^2 + Si^2 = p * L^2 (L = max_count), and the two comparisons of the   *)
(* code are cross-multiplied.  The input levels used below are multiples   *)
(* of max_count, for which every f32 intermediate of the code is an        *)
(* integer below 2^24 and the f32 computation is exact as well.            *)
(***************************************************************************)
EXTENDS Integers, Sequences, FiniteSets, TLC

VARIABLES
    current,           \* HW5800.current: the raw (real, imag) samples of the group
    buffer,            \* HW5800.buffer: averaged (power) samples, scaled by max_count^2
    lst,               \* HW5800.lst: last seen peak
    cur,               \* HW5800.cur: current peak
    on_cut,            \* HW5800.on_cut
    msg,               \* HW5800.msg: bits of a potential message
    median,            \* averaged_sample's local `median`, as [sum, n]: median = sum / n
    pc,                \* position in add_sample: "idle", "drain", "scan", "panic"
    debug_assertions,  \* the build: whether debug_assert_eq! is compiled in
    events,            \* the callback's invocations, in order
    popped,            \* number of bits popped from msg so far
    calls,             \* number of add_sample calls so far
    fwd,               \* number of power values the decimator has forwarded
    dropped,           \* number of windows the block detector has discarded
    scen,              \* the input: what the radio (or the bit decoder) delivers
    tlog,              \* the last two calls of transition(): run, on_cut before and after, bits pushed
    iters,             \* number of iterations of the scan loop so far
    out                \* the host side: bytes for HW5800Status::new, the DeviceStore, the Status, the JSON

vars == << current, buffer, lst, cur, on_cut, msg, median, pc,
           debug_assertions, events, popped, calls, fwd, dropped, scen,
           tlog, iters, out >>

(***************************************************************************)
(* Parameters set by HW5800::new.                                          *)
(***************************************************************************)
max_count == 19
peak_dur == 10
max_buffer == 128
threshold == 250

\* The run length below which a run is folded back as spurious.
spurious_dur == 3

\* The preamble byte and the frame sizes of the framer, in bits.
preamble == 254
frame_bits == 7 * 8
message_bits == 6 * 8

(***************************************************************************)
(* Sequences and bytes.                                                    *)
(***************************************************************************)
Drop(q, n) == SubSeq(q, n + 1, Len(q))

Pow2(n) == 2 ^ n

\* The 8 bits of a byte, most significant first.
Bits(byte) == [i \in 1..8 |-> (byte \div Pow2(8 - i)) % 2 = 1]

RECURSIVE BytesToBits(_)
BytesToBits(bytes) ==
    IF bytes = << >> THEN << >>
    ELSE Bits(Head(bytes)) \o BytesToBits(Tail(bytes))

BitVal(b) == IF b THEN 1 ELSE 0

(***************************************************************************)
(* crc: CRC-16/BUYPASS (polynomial 0x8005, initial value 0, no reflection, *)
(* no final xor), bit by bit.                                              *)
(***************************************************************************)
ToggleBit(v, k) ==
    IF (v \div Pow2(k)) % 2 = 1 THEN v - Pow2(k) ELSE v + Pow2(k)

\* c ^ 0x8005
XorPoly(c) == ToggleBit(ToggleBit(ToggleBit(c, 15), 2), 0)

CrcShift(c, bit) ==
    LET top == (c \div 32768 + BitVal(bit)) % 2
        s == (c * 2) % 65536
    IN  IF top = 1 THEN XorPoly(s) ELSE s

\* The register after bits i.. of `bits` (n ranges over the one register
\* value that follows c, so that TLC computes each register once, before
\* it goes on to the next bit).
RECURSIVE CrcBits(_, _, _)
CrcBits(c, bits, i) ==
    IF i > Len(bits) THEN c
    ELSE CHOOSE r \in {CrcBits(n, bits, i + 1) : n \in {CrcShift(c, bits[i])}} :
             TRUE

\* A CRC that leaves the last byte out.
CrcWithoutLastByte(b) ==
    CHOOSE r \in {CrcBits(0, bits, 1) :
                     bits \in {BytesToBits(SubSeq(b, 1, Len(b) - 1))}} : TRUE

\* (bits ranges over the one bit sequence of b, which is computed once)
crc(b) ==
    CHOOSE r \in {CrcBits(0, bits, 1) : bits \in {BytesToBits(b)}} : TRUE

(***************************************************************************)
(* HW5800Status::new, id and bits.  A buffer of fewer than 4 bytes panics. *)
(***************************************************************************)
\* A constructor that reads the id as the doc comment has it, little endian.
HW5800StatusLittleEndian(m) ==
    IF Len(m) > 3
    THEN [panic |-> FALSE, id |-> m[3] * 65536 + m[2] * 256 + m[1],
          bits |-> m[4]]
    ELSE [panic |-> TRUE, id |-> 0, bits |-> 0]

HW5800Status(m) ==
    IF Len(m) > 3
    THEN [panic |-> FALSE,
          id |-> m[1] * 65536 + m[2] * 256 + m[3],
          bits |-> m[4]]
    ELSE [panic |-> TRUE, id |-> 0, bits |-> 0]

(***************************************************************************)
(* message_begin: the first 8 bits of the queue (or fewer), as a u8.       *)
(***************************************************************************)
RECURSIVE BeginLoop(_, _, _)
BeginLoop(q, i, acc) ==
    IF i > Len(q) \/ i > 8 THEN acc
    ELSE BeginLoop(q, i + 1, ((acc * 2) % 256) + BitVal(q[i]))

message_begin(q) == BeginLoop(q, 1, 0)

(***************************************************************************)
(* message: the first 48 bits of the queue as bytes, and one more byte     *)
(* whenever the length of the queue is not a multiple of 8.                *)
(***************************************************************************)
RECURSIVE MessageLoop(_, _, _, _)
MessageLoop(q, i, acc, ret) ==
    IF i >= Len(q) \/ i >= message_bits
    THEN [acc |-> acc, ret |-> ret]
    ELSE LET a == ((acc * 2) % 256) + BitVal(q[i + 1])
         IN  IF i % 8 = 7
             THEN MessageLoop(q, i + 1, 0, Append(ret, a))
             ELSE MessageLoop(q, i + 1, a, ret)

message(q) ==
    LET r == MessageLoop(q, 0, 0, << >>)
    IN  IF Len(q) % 8 # 0
        THEN Append(r.ret, (r.acc * Pow2(7 - (Len(q) % 8))) % 256)
        ELSE r.ret

(***************************************************************************)
(* The bit decoder: transition.  c is the run that has just ended.         *)
(***************************************************************************)
\* A decoder that also takes a run of exactly peak_dur for a half symbol.
TransitionInclusive(on, q, c) ==
    [msg |-> IF on THEN Append(q, c.hi) ELSE q,
     on_cut |-> IF c.dur <= peak_dur THEN ~on
                ELSE IF ~on THEN TRUE
                ELSE on]

\* A decoder that does not force on_cut after a full-length run.
TransitionNoResync(on, q, c) ==
    [msg |-> IF on THEN Append(q, c.hi) ELSE q,
     on_cut |-> IF c.dur < peak_dur THEN ~on ELSE on]

\* A decoder that pushes the polarity of the run that begins.
TransitionPushesNew(on, q, c) ==
    [msg |-> IF on THEN Append(q, ~c.hi) ELSE q,
     on_cut |-> IF c.dur < peak_dur THEN ~on
                ELSE IF ~on THEN TRUE
                ELSE on]

Transition(on, q, c) ==
    [msg |-> IF on THEN Append(q, c.hi) ELSE q,
     on_cut |-> IF c.dur < peak_dur THEN ~on
                ELSE IF ~on THEN TRUE
                ELSE on]

(***************************************************************************)
(* The peak tracker: the body of the drain loop, for one sample v.         *)
(***************************************************************************)
\* v > median, with median = md.sum / md.n
AboveMedian(v, md) == v * md.n > md.sum

\* A tracker that takes no run for spurious.
BranchNeverFold(v, md, c) ==
    IF AboveMedian(v, md) = c.hi THEN "extend" ELSE "transition"

\* The branch the loop body takes for v.
Branch(v, md, c) ==
    IF AboveMedian(v, md) = c.hi THEN "extend"
    ELSE IF c.dur < spurious_dur THEN "fold"
    ELSE "transition"

\* A tracker whose fold forgets the sample that ends the spurious run.
TrackFoldShort(v, md, l, c, on, q) ==
    LET br == Branch(v, md, c)
        folded == [l EXCEPT !.dur = l.dur + c.dur]
        tr == Transition(on, q, c)
    IN  CASE br = "extend" ->
               [lst |-> l, cur |-> [c EXCEPT !.dur = c.dur + 1],
                on_cut |-> on, msg |-> q]
          [] br = "fold" ->
               [lst |-> folded, cur |-> folded, on_cut |-> on, msg |-> q]
          [] OTHER ->
               [lst |-> c, cur |-> [hi |-> AboveMedian(v, md), dur |-> 1],
                on_cut |-> tr.on_cut, msg |-> tr.msg]

Track(v, md, l, c, on, q) ==
    LET br == Branch(v, md, c)
        folded == [l EXCEPT !.dur = l.dur + c.dur + 1]
        tr == Transition(on, q, c)
    IN  CASE br = "extend" ->
               [lst |-> l, cur |-> [c EXCEPT !.dur = c.dur + 1],
                on_cut |-> on, msg |-> q]
          [] br = "fold" ->
               [lst |-> folded, cur |-> folded, on_cut |-> on, msg |-> q]
          [] OTHER ->
               [lst |-> c, cur |-> [hi |-> AboveMedian(v, md), dur |-> 1],
                on_cut |-> tr.on_cut, msg |-> tr.msg]

\* What one call of transition() did, for the run c that ended.
Called(on, q, c) ==
    LET tr == Transition(on, q, c)
    IN  [run |-> c, before |-> on, after |-> tr.on_cut,
         pushed |-> Len(tr.msg) - Len(q)]

LastTwo(log) == IF Len(log) > 2 THEN Tail(log) ELSE log

DrainStep ==
    /\ pc = "drain"
    /\ buffer # << >>
    /\ LET t == Track(Head(buffer), median, lst, cur, on_cut, msg)
       IN  /\ lst' = t.lst
           /\ cur' = t.cur
           /\ on_cut' = t.on_cut
           /\ msg' = t.msg
    /\ tlog' = IF Branch(Head(buffer), median, cur) = "transition"
               THEN LastTwo(Append(tlog, Called(on_cut, msg, cur)))
               ELSE tlog
    /\ buffer' = Tail(buffer)
    /\ pc' = IF Tail(buffer) = << >> THEN "scan" ELSE "drain"
    /\ UNCHANGED << current, median, debug_assertions, events, popped,
                    calls, fwd, dropped, scen, iters, out >>

(***************************************************************************)
(* The decimator and the block detector: add_sample, and averaged_sample   *)
(* up to the drain loop.                                                   *)
(***************************************************************************)
\* The sum of s[lo], ..., s[hi], halving the range.
RECURSIVE SumOver(_, _, _)
SumOver(s, lo, hi) ==
    IF lo > hi THEN 0
    ELSE IF lo = hi THEN s[lo]
    ELSE LET mid == (lo + hi) \div 2
         IN  SumOver(s, lo, mid) + SumOver(s, mid + 1, hi)

\* r1.0: the sum of the real parts.
SumRe(s) == SumOver([i \in 1..Len(s) |-> s[i][1]], 1, Len(s))

\* r1.1: the sum of the imaginary parts.
SumIm(s) == SumOver([i \in 1..Len(s) |-> s[i][2]], 1, Len(s))

Sum(s) == SumOver(s, 1, Len(s))

\* (r1.0 / l)^2 + (r1.1 / l)^2, times l^2; l is max_count whenever it is taken.
Power(s) == SumRe(s) * SumRe(s) + SumIm(s) * SumIm(s)

\* The group is complete.
GroupFull(s) == Len(s) = max_count

\* A window that is processed one value late.
WindowFullLate(b) == Len(b) > max_buffer

\* The window is processed.
WindowFull(b) == Len(b) >= max_buffer

\* A gate with the comparison turned around.
LowPowerInverted(b) == Sum(b) > threshold * max_count * max_count * Len(b)

\* avg < threshold, with avg = Sum(b) / (max_count^2 * Len(b))
LowPower(b) == Sum(b) < threshold * max_count * max_count * Len(b)

AddSample(real, imag) ==
    /\ pc = "idle"
    /\ calls' = calls + 1
    /\ LET c1 == Append(current, << real, imag >>)
           b1 == Append(buffer, Power(c1))
       IN  IF ~GroupFull(c1)
           THEN /\ current' = c1
                /\ UNCHANGED << buffer, median, pc, fwd, dropped >>
           ELSE /\ fwd' = fwd + 1
                /\ IF ~WindowFull(b1)
                   THEN /\ buffer' = b1
                        /\ current' = << >>
                        /\ UNCHANGED << median, pc, dropped >>
                   ELSE IF LowPower(b1)
                   THEN /\ buffer' = << >>
                        /\ current' = << >>
                        /\ dropped' = dropped + 1
                        /\ UNCHANGED << median, pc >>
                   ELSE /\ buffer' = b1
                        /\ current' = c1
                        /\ median' = [sum |-> Sum(b1), n |-> Len(b1)]
                        /\ pc' = "drain"
                        /\ UNCHANGED dropped
    /\ UNCHANGED << lst, cur, on_cut, msg, debug_assertions, events,
                    popped, scen, tlog, iters, out >>

(***************************************************************************)
(* The framer: the scan loop of averaged_sample, one iteration at a time.  *)
(***************************************************************************)
\* A loop that stops a byte early.
ScanMoreLate(q) == Len(q) >= frame_bits + 8

\* A loop that stops one bit early.
ScanMoreStrict(q) == Len(q) > frame_bits

\* The loop's condition.
ScanMore(q) == Len(q) >= frame_bits

\* "we need to start with a 1 bit" and "we need to start with 0xfe".
StartsWithOne(q) == Head(q) = TRUE

StartsWithPreamble(q) == message_begin(q) = preamble

\* No degenerate filter.
DegenerateNever(m) == FALSE

\* "avoid the degerate case where the entire msg is 0"
Degenerate(m) == m[5] = 0 /\ m[6] = 0

\* A check of the low CRC byte alone.
CrcMatchesLowByte(m) == m[6] = crc(SubSeq(m, 1, 4)) % 256

\* "check the CRC"
CrcMatches(m) ==
    LET c == crc(SubSeq(m, 1, 4))
    IN  m[5] = (c \div 256) % 256 /\ m[6] = c % 256

\* A rejection that pops nothing.
SkipNoBit(q) == q

\* A rejection that pops two bits.
SkipTwoBits(q) == Drop(q, 2)

\* A rejection pops one bit.
SkipBit(q) == Tail(q)

\* A framer that leaves the 0xfe in the queue.
RemoveNothing(q) == q

\* "remove the 0xfe" and "remove the message".
RemovePreamble(q) == Drop(q, 8)

\* A removal of the message that pops the 8 preamble bits once more.
RemoveMessageAndPreamble(q) == Drop(q, frame_bits)

RemoveMessage(q) == Drop(q, message_bits)

\* What one iteration does to the queue q: the queue it leaves, the status
\* it hands to the callback (if any), and whether it panics.
\* The iteration from "get the rest of the message" on: r is the queue
\* without the 0xfe, m is message().
Examine(r, m, dbg) ==
    IF dbg /\ Len(m) # 6
    THEN [q |-> r, emit |-> << >>, panic |-> TRUE]
    ELSE IF Degenerate(m)
    THEN [q |-> SkipBit(r), emit |-> << >>, panic |-> FALSE]
    ELSE IF CrcMatches(m)
    THEN [q |-> RemoveMessage(r),
          emit |-> << [id |-> HW5800Status(m).id,
                       bits |-> HW5800Status(m).bits,
                       m |-> m,
                       at |-> popped] >>,
          panic |-> FALSE]
    ELSE [q |-> SkipBit(r), emit |-> << >>, panic |-> FALSE]

FramerIteration(q, dbg) ==
    IF ~StartsWithOne(q)
    THEN [q |-> SkipBit(q), emit |-> << >>, panic |-> FALSE]
    ELSE IF ~StartsWithPreamble(q)
    THEN [q |-> SkipBit(q), emit |-> << >>, panic |-> FALSE]
    ELSE CHOOSE it \in {Examine(r, m, dbg) :
                           r \in {RemovePreamble(q)},
                           m \in {message(RemovePreamble(q))}} : TRUE

FramerIter ==
    /\ pc = "scan"
    /\ ScanMore(msg)
    /\ \E it \in {FramerIteration(msg, debug_assertions)} :
           /\ msg' = it.q
           /\ events' = events \o it.emit
           /\ popped' = popped + (Len(msg) - Len(it.q))
           /\ pc' = IF it.panic THEN "panic" ELSE "scan"
    /\ iters' = iters + 1
    /\ UNCHANGED << current, buffer, lst, cur, on_cut, median,
                    debug_assertions, calls, fwd, dropped, scen, tlog, out >>

\* The loop ends, and add_sample returns.
FramerExit ==
    /\ pc = "scan"
    /\ ~ScanMore(msg)
    /\ pc' = "idle"
    /\ current' = << >>
    /\ UNCHANGED << buffer, lst, cur, on_cut, msg, median,
                    debug_assertions, events, popped, calls, fwd, dropped,
                    scen, tlog, iters, out >>

(***************************************************************************)
(* Inputs.  A scenario is a record [kind, f, g, k, b, fill]; the bit queue *)
(* handed to the framer, or the samples handed to add_sample, are computed *)
(* from it.                                                                *)
(***************************************************************************)
\* Bounds of the scenarios.
PrefixLen == 37
MaxTail == 2
MaxNoise == 8
MaxRun == 12

\* The payloads [id0, id1, id2, status]; the last two have the CRC 0x0000.
Payloads ==
    << << 18, 52, 86, 32 >>, << 170, 187, 204, 128 >>, << 0, 0, 1, 66 >>,
       << 0, 0, 0, 0 >>, << 0, 1, 128, 5 >> >>

AllFrames == 1..Len(Payloads)

\* The payloads whose CRC bytes are not both zero.
Emitted == {i \in AllFrames : crc(Payloads[i]) # 0}

\* [id0, id1, id2, status, crc_hi, crc_lo]
Frame(i) ==
    Payloads[i] \o << crc(Payloads[i]) \div 256, crc(Payloads[i]) % 256 >>

\* 0xFE, then the frame.
Packets == [i \in AllFrames |-> BytesToBits(<< preamble >> \o Frame(i))]

Packet(i) == Packets[i]

Repeat(bit, n) == [i \in 1..n |-> bit]

Flip(q, i) == [q EXCEPT ![i] = ~q[i]]

\* The bits of byte b over and over, n bits of them.
Pattern(b, n) == [i \in 1..n |-> Bits(b)[((i - 1) % 8) + 1]]

\* PrefixLen bits: the byte b at offset k, the rest filled.
Prefix(k, b, fill) ==
    Repeat(fill = 1, k) \o Bits(b) \o Repeat(fill = 1, PrefixLen - 8 - k)

Scen(kind, f, g, k, b, fill) ==
    [kind |-> kind, f |-> f, g |-> g, k |-> k, b |-> b, fill |-> fill]

Singles == {Scen("single", f, 0, k, 0, fill) :
               f \in AllFrames, k \in 0..MaxTail, fill \in {0, 1}}

Flips == {Scen("flip", f, 0, k, 0, 0) : f \in AllFrames, k \in 1..message_bits}

Resyncs == {Scen("resync", f, 0, k, b, fill) :
               f \in Emitted, k \in 0..(PrefixLen - 8),
               b \in {preamble, 127, 252}, fill \in {0, 1}}

Twos == {Scen("two", f, g, 0, 0, 0) : f \in Emitted, g \in Emitted}

Noises == {Scen("noise", 0, 0, k, b, 0) :
              k \in 0..MaxNoise, b \in {0, 255, 170, preamble, 127}}

Queues == Singles \cup Flips \cup Resyncs \cup Twos \cup Noises

QueueOf(s) ==
    CASE s.kind = "single" -> Packet(s.f) \o Repeat(s.fill = 1, s.k)
      [] s.kind = "flip" -> Flip(Packet(s.f), 8 + s.k)
      [] s.kind = "resync" -> Prefix(s.k, s.b, s.fill) \o Packet(s.f)
      [] s.kind = "two" -> Packet(s.f) \o Packet(s.g)
      [] OTHER -> Pattern(s.b, frame_bits + s.k)

\* The radio's samples.  Every power sample is max_count equal (real, imag)
\* pairs: (Level, 0) for a high sample and (0, 0) for a low one.
Level == 2 * max_count

\* "frame": 0xFE and the frame, each bit two runs of s.k power samples
\* (1 = low then high, 0 = high then low), then silence.
\* "burst": the same with shorter runs, one 0 bit before the 0xFE and two
\* after the frame.
\* "spike": a high run of s.k samples, one low sample, then high again up
\* to sample 2 * MaxRun, then runs of MaxRun samples, low first.
\* "flutter": runs of s.k < 3 samples from the first sample on, the first
\* run high when s.fill = 1.
Frames == {Scen("frame", f, 0, peak_dur, 0, 0) : f \in {1, 2}}

Spikes == {Scen("spike", 0, 0, k, 0, 0) : k \in spurious_dur..MaxRun}

Bursts == {Scen("burst", f, 0, k, 0, 0) : f \in {1, 2}, k \in {5, 7}}

Flutters ==
    {Scen("flutter", 0, 0, k, 0, fill) :
        k \in 1..(spurious_dur - 1), fill \in {0, 1}}

Streams == Frames \cup Spikes \cup Bursts \cup Flutters

\* The bits a scenario sends as symbols.
SymbolsOf ==
    [s \in Frames \cup Bursts |->
        IF s.kind = "burst"
        THEN << FALSE >> \o Packet(s.f) \o << FALSE, FALSE >>
        ELSE Packet(s.f)]

Symbols(s) == SymbolsOf[s]

\* Whether power sample j (from 0) is high.
HighAt(s, j) ==
    IF s.kind \in {"frame", "burst"}
    THEN LET sym == j \div (2 * s.k)
             second == ((j % (2 * s.k)) \div s.k) = 1
         IN  IF sym >= Len(Symbols(s)) THEN FALSE
             ELSE Symbols(s)[sym + 1] = second
    ELSE IF s.kind = "flutter" THEN ((j \div s.k) % 2 = 0) = (s.fill = 1)
    ELSE IF j < 2 * MaxRun THEN j # s.k
    ELSE ((j \div MaxRun) % 2) = 1

\* The number of windows fed.
Windows(s) ==
    IF s.kind \in {"frame", "burst"}
    THEN ((Len(Symbols(s)) * 2 * s.k) \div max_buffer) + 2
    ELSE 1

SampleAt(s, n) ==
    IF HighAt(s, (n - 1) \div max_count) THEN << Level, 0 >> ELSE << 0, 0 >>

\* The pipeline stops taking samples once the scenario's windows are through.
Feed ==
    /\ fwd < Windows(scen) * max_buffer
    /\ \E x \in {SampleAt(scen, calls + 1)} : AddSample(x[1], x[2])

(***************************************************************************)
(* The host side: HW5800Status::new on a byte buffer, and                  *)
(* DeviceStore::as_json (devices.rs) on the Status it returns.             *)
(***************************************************************************)
\* The decoder's variables.
decoder == << current, buffer, lst, cur, on_cut, msg, median, pc,
              debug_assertions, events, popped, calls, fwd, dropped, scen,
              tlog, iters >>

\* yes_no
yes_no(b) == IF b = 0 THEN "n" ELSE "y"

\* b & mask, for a mask of one bit.
BitAnd(b, mask) == IF (b \div mask) % 2 = 1 THEN mask ELSE 0

\* {:02X} of a u8: two digits, upper case.
HexDigits ==
    << "0", "1", "2", "3", "4", "5", "6", "7",
       "8", "9", "A", "B", "C", "D", "E", "F" >>

Hex02(b) == << HexDigits[(b \div 16) + 1], HexDigits[(b % 16) + 1] >>

\* self.0.get(&id).unwrap_or(&DeviceType::Unknown)
DeviceTypeOf(store, id) ==
    IF id \in DOMAIN store THEN store[id] ELSE "Unknown"

\* An as_json with the shapes of Door and Motion exchanged.
as_jsonExchanged(store, status) ==
    CASE DeviceTypeOf(store, status.id) = "Motion" ->
           << << "open", yes_no(BitAnd(status.bits, 32)) >>,
              << "tog", yes_no(BitAnd(status.bits, 64)) >>,
              << "b", Hex02(status.bits) >> >>
      [] DeviceTypeOf(store, status.id) = "Door" ->
           << << "motion", yes_no(BitAnd(status.bits, 128)) >>,
              << "tog", yes_no(BitAnd(status.bits, 64)) >>,
              << "b", Hex02(status.bits) >> >>
      [] OTHER -> << << "b", Hex02(status.bits) >> >>

\* The JSON object as the list of its (key, value) pairs, in order; every
\* value is a string, the value of "b" is given as its characters.
as_json(store, status) ==
    CASE DeviceTypeOf(store, status.id) = "Door" ->
           << << "open", yes_no(BitAnd(status.bits, 32)) >>,
              << "tog", yes_no(BitAnd(status.bits, 64)) >>,
              << "b", Hex02(status.bits) >> >>
      [] DeviceTypeOf(store, status.id) = "Motion" ->
           << << "motion", yes_no(BitAnd(status.bits, 128)) >>,
              << "tog", yes_no(BitAnd(status.bits, 64)) >>,
              << "b", Hex02(status.bits) >> >>
      [] OTHER -> << << "b", Hex02(status.bits) >> >>

\* HW5800Status::new(&out.m)
StatusNew ==
    /\ out.at = "bytes"
    /\ out' = [out EXCEPT !.status = HW5800Status(out.m),
                          !.at = IF HW5800Status(out.m).panic
                                 THEN "panic" ELSE "status"]
    /\ UNCHANGED decoder

\* store.as_json(&status)
AsJson ==
    /\ out.at = "status"
    /\ out' = [out EXCEPT !.json = as_json(out.store, out.status),
                          !.at = "json"]
    /\ UNCHANGED decoder

\* The decoder on its own: no host side.
NoHost ==
    [at |-> "none", m |-> << >>, store |-> << >>,
     status |-> [panic |-> FALSE, id |-> 0, bits |-> 0], json |-> << >>]

\* The byte buffers: up to 3 id bytes, or 3 id bytes, a status byte and up
\* to MaxBytes - 4 bytes more.
MaxBytes == 5

IdBytes == {0, 1, 255}

StatusBytes ==
    {0, 10, 27, 32, 37, 64, 79, 96, 126, 128, 156, 160, 192, 211, 224, 255}

TailBytes == {0, 255}

Buffers ==
    UNION {[1..n -> IdBytes] : n \in 0..3}
      \cup {i \o << b >> \o t :
               i \in [1..3 -> IdBytes], b \in StatusBytes,
               t \in UNION {[1..n -> TailBytes] : n \in 0..(MaxBytes - 4)}}

\* The registries: Door or Motion for some of the ids 000001 and FFFFFF.
KnownIds == {1, 255 * 65536 + 255 * 256 + 255}

Stores == UNION {[D -> {"Door", "Motion"}] : D \in SUBSET KnownIds}

(***************************************************************************)
(* Spec: the pipeline as HW5800::new leaves it, fed a scenario's samples.  *)
(***************************************************************************)
Init ==
    /\ current = << << 0, 0 >> >>
    /\ buffer = << >>
    /\ lst = [hi |-> TRUE, dur |-> 0]
    /\ cur = [hi |-> FALSE, dur |-> 0]
    /\ on_cut = TRUE
    /\ msg = << >>
    /\ median = [sum |-> 0, n |-> 1]
    /\ pc = "idle"
    /\ debug_assertions \in BOOLEAN
    /\ events = << >>
    /\ popped = 0
    /\ calls = 0
    /\ fwd = 0
    /\ dropped = 0
    /\ scen \in Streams
    /\ tlog = << >>
    /\ iters = 0
    /\ out = NoHost

Next == Feed \/ DrainStep \/ FramerIter \/ FramerExit

Spec == Init /\ [][Next]_vars

(***************************************************************************)
(* SpecFramer: the scan loop on the bit queues of Queues, at the point     *)
(* where the first window has been drained.                                *)
(***************************************************************************)
InitFramer ==
    /\ current = [i \in 1..max_count |-> << Level, 0 >>]
    /\ buffer = << >>
    /\ lst = [hi |-> FALSE, dur |-> peak_dur]
    /\ cur = [hi |-> TRUE, dur |-> 1]
    /\ on_cut = TRUE
    /\ scen \in Queues
    /\ msg = QueueOf(scen)
    /\ median = [sum |-> 0, n |-> 1]
    /\ pc = "scan"
    /\ debug_assertions \in BOOLEAN
    /\ events = << >>
    /\ popped = 0
    /\ calls = max_count * max_buffer - 1
    /\ fwd = max_buffer
    /\ dropped = 0
    /\ tlog = << >>
    /\ iters = 0
    /\ out = NoHost

NextFramer == FramerIter \/ FramerExit

SpecFramer == InitFramer /\ [][NextFramer]_vars

(***************************************************************************)
(* SpecFramerFair: the scan loop, which runs on once it is entered: there  *)
(* is no suspension point in add_sample.                                   *)
(***************************************************************************)
SpecFramerFair ==
    InitFramer /\ [][NextFramer]_vars /\ WF_vars(NextFramer)

(***************************************************************************)
(* SpecStatus: HW5800Status::new on the buffers of Buffers, then as_json   *)
(* with the registries of Stores; the decoder as HW5800::new leaves it.    *)
(***************************************************************************)
InitStatus ==
    /\ current = << << 0, 0 >> >>
    /\ buffer = << >>
    /\ lst = [hi |-> TRUE, dur |-> 0]
    /\ cur = [hi |-> FALSE, dur |-> 0]
    /\ on_cut = TRUE
    /\ msg = << >>
    /\ median = [sum |-> 0, n |-> 1]
    /\ pc = "idle"
    /\ debug_assertions \in BOOLEAN
    /\ events = << >>
    /\ popped = 0
    /\ calls = 0
    /\ fwd = 0
    /\ dropped = 0
    /\ scen = Scen("host", 0, 0, 0, 0, 0)
    /\ tlog = << >>
    /\ iters = 0
    /\ out \in {[NoHost EXCEPT !.at = "bytes", !.m = b, !.store = st] :
                   b \in Buffers, st \in Stores}

NextStatus == StatusNew \/ AsJson

SpecStatus == InitStatus /\ [][NextStatus]_vars

(***************************************************************************)
(* The claims.                                                             *)
(***************************************************************************)
\* The scan loop has ended and add_sample has returned.
Done == pc = "idle"

\* The scenario's samples are all through the pipeline.
StreamDone == Done /\ fwd = Windows(scen) * max_buffer

\* The (id, bits) pairs handed to the callback, in order.
Statuses == [i \in 1..Len(events) |-> << events[i].id, events[i].bits >>]

\* The (id, bits) of payload i.
Expected(i) ==
    << Payloads[i][1] * 65536 + Payloads[i][2] * 256 + Payloads[i][3],
       Payloads[i][4] >>

\* The pattern 11111110 occurs in p.
HasPreamble(p) ==
    \E i \in 1..(Len(p) - 7) : SubSeq(p, i, i + 7) = Bits(preamble)

\* No two neighbours of q are equal.
Alternating(q) == \A i \in 1..(Len(q) - 1) : q[i] # q[i + 1]

\* C1: every Status handed to the callback was built from the 6 bytes m
\* that follow a popped 0xFE in the queue, and CRC16-BUYPASS(m[0..4]) is
\* (m[4] << 8) | m[5]; its id and bits are those of m.
C1_EmittedFramesPassCrc ==
    \A i \in 1..Len(events) :
        LET m == events[i].m
            at == events[i].at
            q == QueueOf(scen)
        IN  /\ SubSeq(q, at + 1, at + 8) = Bits(preamble)
            /\ BytesToBits(SubSeq(m, 1, 6)) = SubSeq(q, at + 9, at + frame_bits)
            /\ crc(SubSeq(m, 1, 4)) = m[5] * 256 + m[6]
            /\ events[i].id = m[1] * 65536 + m[2] * 256 + m[3]
            /\ events[i].bits = m[4]

\* A frame in release mode with one stray bit behind it: message() returns
\* 7 bytes, the first 6 pass the CRC check and the Status is handed over.
C1_Witness ==
    /\ scen.kind = "single" /\ scen.f = 2 /\ scen.k = 1
    /\ Done /\ Len(events) = 1 /\ Len(events[1].m) = 7
    /\ events[1].m[5] * 256 + events[1].m[6] = crc(Payloads[2])

\* C2: no Status is handed to the callback for a frame whose two CRC bytes
\* are both zero, also when the CRC of its payload is 0x0000.
C2_NoDegenerateEmitted ==
    /\ \A i \in 1..Len(events) : ~(events[i].m[5] = 0 /\ events[i].m[6] = 0)
    /\ (scen.kind = "single" /\ scen.f \notin Emitted) => events = << >>

\* The payload 00 01 80 05, whose CRC is 0x0000, has been examined and
\* rejected: the preamble and one more bit are popped.
C2_Witness ==
    /\ scen.kind = "single" /\ scen.f = 5 /\ crc(Payloads[5]) = 0
    /\ Done /\ popped = 9 /\ events = << >>

\* C3, as claimed: a frame sent as 0xFE and the frame, each bit two runs of
\* peak_dur power samples, into a fresh pipeline gives exactly one callback,
\* with the frame's id and status.
C3_RoundTrip ==
    (scen.kind = "frame" /\ StreamDone) => Statuses = << Expected(scen.f) >>

\* C3, amended: that stream gives no callback at all: every run lasts at
\* least peak_dur, so on_cut stays true, every run pushes one bit and the
\* bit queue alternates, and 0xFE never shows.
C3_NoRoundTrip ==
    scen.kind = "frame" => (events = << >> /\ on_cut /\ Alternating(msg))

C3_Witness ==
    scen.kind = "frame" /\ StreamDone /\ popped > 0 /\ Len(msg) = frame_bits - 1

\* C4, as claimed: whatever the 37 bits before 0xFE and a valid frame, the
\* framer emits exactly one Status, the frame's.
C4_ResyncAnyPrefix ==
    (scen.kind = "resync" /\ Done) => Statuses = << Expected(scen.f) >>

\* C4, amended: when the pattern 11111110 does not occur in the 37 bits,
\* the framer emits exactly one Status, the frame's, found at bit 37.
C4_ResyncCleanPrefix ==
    (scen.kind = "resync" /\ ~HasPreamble(Prefix(scen.k, scen.b, scen.fill)))
        => /\ pc # "panic"
           /\ Len(events) <= 1
           /\ Done => Statuses = << Expected(scen.f) >>
           /\ events # << >> => events[1].at = PrefixLen

C4_Witness ==
    /\ scen.kind = "resync" /\ scen.b = 127 /\ scen.fill = 0
    /\ ~HasPreamble(Prefix(scen.k, scen.b, scen.fill))
    /\ Done /\ Len(events) = 1 /\ popped = PrefixLen + frame_bits

\* C5: two valid frames back to back give two callbacks, frame A's and
\* then frame B's; and a frame that starts earlier in the queue is always
\* emitted before one that starts later.
C5_TwoFramesInOrder ==
    /\ (scen.kind = "two" /\ Done)
           => Statuses = << Expected(scen.f), Expected(scen.g) >>
    /\ scen.kind = "two" => pc # "panic"
    /\ \A i, j \in 1..Len(events) : i < j => events[i].at < events[j].at

C5_Witness ==
    /\ scen.kind = "two" /\ scen.f # scen.g
    /\ Done /\ Len(events) = 2 /\ msg = << >>

\* C6: 0xFE and a valid frame with any one of its 48 bits flipped gives no
\* callback.
C6_FlippedBitSuppressed == scen.kind = "flip" => events = << >>

C6_Witness == scen.kind = "flip" /\ Done /\ popped = 9 /\ events = << >>

\* C7, as claimed: the decimator forwards a power value exactly on the
\* add_sample calls numbered max_count, 2 * max_count, ...
C7_ForwardsOnMultiples == fwd = calls \div max_count

\* The window that the next add_sample completes, when it completes one.
NextWindow ==
    Append(buffer, Power(Append(current, SampleAt(scen, calls + 1))))

\* The next add_sample completes a window whose mean is below the threshold.
LowWindowNext ==
    /\ pc = "idle"
    /\ fwd < Windows(scen) * max_buffer
    /\ Len(current) + 1 = max_count
    /\ Len(buffer) + 1 >= max_buffer
    /\ Sum(NextWindow) < threshold * max_count * max_count * Len(NextWindow)

\* C8: a full window whose mean is below the threshold is only emptied:
\* no transition, no bit, no framer pass, no callback; cur, lst, on_cut and
\* the bit queue stay as they are.
C8_LowWindowOnlyEmptied ==
    [][LowWindowNext =>
          /\ buffer' = << >>
          /\ pc' = "idle"
          /\ UNCHANGED << lst, cur, on_cut, msg, events, popped >>]_vars

C8_Witness ==
    dropped > 0 /\ buffer = << >> /\ msg # << >> /\ cur.dur > 0 /\ Done

\* A run of at least 3 samples is met by one sample of the other polarity,
\* and the sample after it has the run's polarity again.
SpikeNext ==
    /\ pc = "drain"
    /\ Len(buffer) >= 2
    /\ cur.dur >= spurious_dur
    /\ AboveMedian(buffer[1], median) # cur.hi
    /\ AboveMedian(buffer[2], median) = cur.hi

\* The sample after a one-sample run returns to the polarity of the run
\* before it.
SpikeReturn ==
    /\ pc = "drain"
    /\ buffer # << >>
    /\ cur.dur = 1
    /\ lst.dur >= spurious_dur
    /\ lst.hi # cur.hi
    /\ AboveMedian(buffer[1], median) = lst.hi

\* C9, as claimed: the spike causes no transition: no bit is pushed and
\* on_cut does not change at the spike sample.
C9_SpikeNoTransition ==
    [][SpikeNext => (msg' = msg /\ on_cut' = on_cut)]_vars

\* C9, amended: the spike sample itself ends the run with a transition (a
\* bit is pushed when on_cut is true, and on_cut changes unless it is true
\* and the run lasted peak_dur); it is the sample after it that causes
\* none: the one-sample run is folded back, cur and lst both become the run
\* from before the spike, 2 samples longer, and no bit is pushed.
C9_SpikeFoldedBack ==
    [][/\ SpikeNext =>
            /\ lst' = cur
            /\ cur' = [hi |-> ~cur.hi, dur |-> 1]
            /\ msg' = (IF on_cut THEN Append(msg, cur.hi) ELSE msg)
            /\ on_cut' = (IF cur.dur < peak_dur THEN ~on_cut ELSE TRUE)
       /\ SpikeReturn =>
            /\ cur' = [hi |-> lst.hi, dur |-> lst.dur + 2]
            /\ lst' = cur'
            /\ msg' = msg
            /\ on_cut' = on_cut]_vars

C9_Witness ==
    /\ scen.kind = "spike" /\ pc = "drain"
    /\ cur = lst /\ cur.hi /\ cur.dur = scen.k + 2
    /\ Len(msg) = 1

\* C10, as claimed: after every single iteration of the scan loop the
\* queue holds fewer than 56 bits, or starts with the byte 0xFE.
C10_PreambleAfterEveryIteration ==
    [][(pc = "scan" /\ ScanMore(msg)) =>
          \/ Len(msg') < frame_bits
          \/ (Head(msg') /\ message_begin(msg') = preamble)]_vars

\* C10, amended: it is when the scan loop has ended that the queue holds
\* fewer than 56 bits; an iteration may leave 56 bits or more that do not
\* start with 0xFE, and only an iteration that found the queue starting
\* with 0xFE pops more than one bit.
C10_ShortWhenLoopEnds ==
    [][pc = "scan" =>
          /\ pc' = "idle" => Len(msg') < frame_bits
          /\ Len(msg') + 1 < Len(msg) =>
                 (Head(msg) /\ message_begin(msg) = preamble)]_vars

C10_Witness ==
    /\ scen.kind = "noise" /\ Done /\ popped > 1
    /\ Len(msg) = frame_bits - 1 /\ ~Head(msg)

\* The sample at the head of the window ends the current run with a call
\* of transition().
TransitionNext ==
    /\ pc = "drain"
    /\ buffer # << >>
    /\ cur.dur >= spurious_dur
    /\ AboveMedian(buffer[1], median) # cur.hi

ByteAt(q, n) ==
    LET bit(i) == IF q[8 * (n - 1) + i] THEN 2 ^ (8 - i) ELSE 0
    IN  bit(1) + bit(2) + bit(3) + bit(4) + bit(5) + bit(6) + bit(7) + bit(8)

\* The queue starts with the byte 0xFE.
PreambleAhead == Head(msg) /\ ByteAt(msg, 1) = preamble

\* The causes of a rejection: head bit not 1, leading byte not 0xFE, both
\* CRC bytes zero, CRC mismatch.
RejectCause ==
    \/ ~PreambleAhead
    \/ (ByteAt(msg, 6) = 0 /\ ByteAt(msg, 7) = 0)
    \/ crc(<< ByteAt(msg, 2), ByteAt(msg, 3), ByteAt(msg, 4), ByteAt(msg, 5) >>)
           # ByteAt(msg, 6) * 256 + ByteAt(msg, 7)

\* An iteration of the scan loop that runs to its end.
IterationNext == pc = "scan" /\ Len(msg) >= frame_bits /\ pc' # "panic"

\* C12, as claimed: on every rejection no event is emitted and the queue is
\* exactly one bit shorter after the iteration.
C12_RejectionPopsOneBit ==
    [][(IterationNext /\ RejectCause) =>
          (events' = events /\ Len(msg') = Len(msg) - 1)]_vars

\* C12, amended: on every rejection no event is emitted; the queue is one
\* bit shorter when the rejection is for the head bit or the leading byte,
\* and nine bits shorter (the 8 bits of the 0xFE and one more) when it is
\* for a degenerate payload or a CRC mismatch, which are found after the
\* 0xFE has been popped.
C12_RejectionPopsOneOrNine ==
    [][IterationNext =>
          /\ (RejectCause /\ ~PreambleAhead) =>
                 (events' = events /\ msg' = Drop(msg, 1))
          /\ (RejectCause /\ PreambleAhead) =>
                 (events' = events /\ msg' = Drop(msg, 9))
          /\ ~RejectCause => Len(events') = Len(events) + 1]_vars

\* A frame with a flipped bit has just been rejected for its CRC.
C12_Witness ==
    /\ scen.kind = "flip" /\ scen.f = 1 /\ scen.k = 1
    /\ pc = "scan" /\ iters = 1 /\ popped = 9 /\ events = << >>

YesIfBit(b, w) == IF (b \div w) % 2 = 1 THEN "y" ELSE "n"

\* The value of an upper-case hex digit; 16 for anything else.
HexValue(ch) ==
    CASE ch = "0" -> 0 [] ch = "1" -> 1 [] ch = "2" -> 2 [] ch = "3" -> 3
      [] ch = "4" -> 4 [] ch = "5" -> 5 [] ch = "6" -> 6 [] ch = "7" -> 7
      [] ch = "8" -> 8 [] ch = "9" -> 9 [] ch = "A" -> 10 [] ch = "B" -> 11
      [] ch = "C" -> 12 [] ch = "D" -> 13 [] ch = "E" -> 14 [] ch = "F" -> 15
      [] OTHER -> 16

\* h is the byte b as two upper-case hex digits.
IsHexOf(h, b) ==
    /\ Len(h) = 2
    /\ HexValue(h[1]) < 16 /\ HexValue(h[2]) < 16
    /\ HexValue(h[1]) * 16 + HexValue(h[2]) = b

\* The keys of a JSON object, in order.
Keys(j) == [i \in 1..Len(j) |-> j[i][1]]

\* C14: as_json picks the shape from the registry entry of status.id():
\* Door gives open = bit 0x20 and tog = bit 0x40, Motion gives
\* motion = bit 0x80 and tog = bit 0x40, no entry gives "b" alone; "b" is
\* always the status byte as two upper-case hex digits.
C14_JsonShapeByDeviceType ==
    out.at = "json" =>
        LET id == out.status.id
            bits == out.status.bits
            j == out.json
            known == id \in DOMAIN out.store
        IN  /\ (known /\ out.store[id] = "Door") =>
                 /\ Keys(j) = << "open", "tog", "b" >>
                 /\ j[1][2] = YesIfBit(bits, 32)
                 /\ j[2][2] = YesIfBit(bits, 64)
            /\ (known /\ out.store[id] = "Motion") =>
                 /\ Keys(j) = << "motion", "tog", "b" >>
                 /\ j[1][2] = YesIfBit(bits, 128)
                 /\ j[2][2] = YesIfBit(bits, 64)
            /\ ~known => Keys(j) = << "b" >>
            /\ IsHexOf(j[Len(j)][2], bits)

\* A door with status byte 0x25: open, not toggled, "25"; and the registry
\* holds a motion sensor as well.
C14_Witness ==
    /\ out.at = "json" /\ out.status.id = 1 /\ out.status.bits = 37
    /\ DOMAIN out.store = KnownIds
    /\ out.store[1] = "Door" /\ out.store[255 * 65536 + 255 * 256 + 255] = "Motion"
    /\ out.json = << << "open", "y" >>, << "tog", "n" >>, << "b", << "2", "5" >> >> >>

\* C15, as claimed: whenever the framer has popped a 0xFE, message()
\* returns exactly 6 bytes for the 48 bits or more that remain, and the
\* assertion debug_assert_eq!(m.len(), 6) never fails.
C15_MessageHasSixBytes ==
    /\ pc # "panic"
    /\ \A i \in 1..Len(events) : Len(events[i].m) = 6

\* C16: a call of transition() pushes one bit when on_cut was true and none
\* when it was false; afterwards on_cut is negated if the run that ended
\* lasted less than peak_dur, and true otherwise.  So two consecutive calls
\* for short runs, the first on cut, push one bit between them and leave
\* on_cut true.
C16_TransitionPushAndCut ==
    /\ [][TransitionNext =>
             /\ on_cut => Len(msg') = Len(msg) + 1
             /\ ~on_cut => msg' = msg
             /\ on_cut' = (IF cur.dur < peak_dur THEN ~on_cut ELSE TRUE)]_vars
    /\ [](Len(tlog) = 2 =>
             /\ tlog[2].before = tlog[1].after
             /\ (/\ tlog[1].before
                 /\ tlog[1].run.dur < peak_dur
                 /\ tlog[2].run.dur < peak_dur)
                    => /\ tlog[1].pushed + tlog[2].pushed = 1
                       /\ tlog[2].after
                       /\ on_cut)

\* Two half-symbol runs of a frame have just ended, the first on cut.
C16_Witness ==
    /\ scen.kind = "burst" /\ pc = "drain" /\ Len(tlog) = 2
    /\ tlog[1].before /\ tlog[1].pushed = 1 /\ tlog[2].pushed = 0
    /\ tlog[1].run.dur = scen.k /\ tlog[2].run.dur = scen.k
    /\ tlog[1].run.hi # tlog[2].run.hi
    /\ on_cut /\ cur.dur = 1

\* C17: when add_sample has returned the bit queue holds fewer than 56
\* bits; while a window is drained it holds at most 55 bits and one bit
\* for each sample drained so far; and the queue gets shorter only in the
\* scan loop.
C17_QueueShortAtReturn ==
    /\ [](pc = "idle" => Len(msg) < frame_bits)
    /\ [](Len(msg) <= frame_bits - 1 + (max_buffer - Len(buffer)))
    /\ [][Len(msg') < Len(msg) => (pc = "scan" /\ msg' = Drop(msg, Len(msg) - Len(msg')))]_vars

\* add_sample returns with 55 bits queued, after a scan loop that popped
\* bits, and samples of the next group are in.
C17_Witness ==
    /\ pc = "idle" /\ Len(msg) = frame_bits - 1 /\ popped > 0
    /\ Len(current) > 0 /\ buffer = << >> /\ dropped = 0

\* The tracker is about to process the sample at the head of the window.
SampleNext == pc = "drain" /\ buffer # << >>

\* C18, as claimed: after the tracker has processed a sample v, by any of
\* its three branches, cur.hi = (v > median).
C18_PolarityFollowsSample ==
    [][SampleNext => cur'.hi = AboveMedian(buffer[1], median)]_vars

\* C18, amended: cur.hi = (v > median) after the tracker has extended the
\* run or started a new one; after it has folded a spurious run, cur is lst
\* and has the polarity lst had, which is not that of v when the spurious
\* run had the polarity of lst (as after H, L from the initial state).
C18_PolarityAfterSample ==
    [][SampleNext =>
          LET hi == AboveMedian(buffer[1], median)
          IN  /\ (hi = cur.hi \/ cur.dur >= spurious_dur) => cur'.hi = hi
              /\ (hi # cur.hi /\ cur.dur < spurious_dur) =>
                     /\ cur' = lst'
                     /\ cur'.hi = lst.hi
                     /\ (lst.hi = cur.hi) => cur'.hi # hi]_vars

\* From the initial state the samples H, L: both are folded, and cur is a
\* high run of 3 after a low sample.
C18_Witness ==
    /\ scen.kind = "flutter" /\ scen.k = 1 /\ scen.fill = 1
    /\ pc = "drain" /\ Len(buffer) = max_buffer - 2
    /\ cur = [hi |-> TRUE, dur |-> 3] /\ lst = cur
    /\ ~HighAt(scen, 1)

\* The most iterations the scan loop can make on a queue of n bits.
MostIterations(n) == IF n >= frame_bits THEN n - (frame_bits - 1) ELSE 0

\* C19: the scan loop terminates: every iteration removes at least one bit
\* and adds none, the loop makes at most (initial length - 55) iterations,
\* and when it has ended fewer than 56 bits are left.
C19_ScanLoopTerminates ==
    /\ [][pc = "scan" =>
             /\ Len(msg') <= Len(msg)
             /\ iters' # iters =>
                    (Len(msg') < Len(msg)
                       /\ msg' = Drop(msg, Len(msg) - Len(msg')))]_vars
    /\ [](iters <= MostIterations(Len(QueueOf(scen))))
    /\ [](pc = "idle" => Len(msg) < frame_bits)
    /\ <>(pc # "scan")

\* A queue without a 1 bit: the loop has ended after the most iterations
\* it can make.
C19_Witness ==
    /\ scen.kind = "noise" /\ scen.b = 0 /\ scen.k = MaxNoise
    /\ pc = "idle" /\ iters = MaxNoise + 1
    /\ iters = MostIterations(Len(QueueOf(scen)))

\* add_sample forwards a power value, and the window is processed: dropped
\* by the gate, or handed to the drain loop.
WindowProcessed == pc = "idle" /\ (dropped' # dropped \/ pc' = "drain")

\* C20: current never holds more than max_count samples and buffer never
\* more than max_buffer values; a group is averaged when it holds exactly
\* max_count samples and a window is processed when it holds exactly
\* max_buffer values; and when add_sample returns after it has averaged a
\* group, current is empty, and after it has processed a window, buffer is
\* empty as well.
C20_BuffersBounded ==
    /\ [](Len(current) <= max_count /\ Len(buffer) <= max_buffer)
    /\ [](pc = "idle" => (Len(current) < max_count /\ Len(buffer) < max_buffer))
    /\ [][/\ (pc = "idle" /\ fwd' # fwd) =>
                 /\ Len(current) + 1 = max_count
                 /\ pc' = "idle" => current' = << >>
          /\ WindowProcessed =>
                 /\ Len(buffer) + 1 = max_buffer
                 /\ pc' = "drain" => Len(buffer') = max_buffer
                 /\ pc' = "idle" => buffer' = << >>
          /\ (pc = "scan" /\ pc' = "idle") =>
                 (buffer' = << >> /\ current' = << >>)]_vars

\* The second window is handed to the drain loop, full, by the add_sample
\* that completes a group.
C20_Witness ==
    /\ pc = "drain" /\ fwd = 2 * max_buffer
    /\ Len(buffer) = max_buffer /\ Len(current) = max_count
    /\ calls = max_count * fwd - 1

=============================================================================
